---- MODULE Spec2Model ----
(***************************************************************************)
(* A model of the MCP client (MCP/clients/mcp_clients/langchain_mcp_lient) *)
(* and of the terminal server's file tools (MCP/servers/terminal_server).  *)
(*                                                                         *)
(* Text is modelled as a sequence of one-character strings, so that        *)
(* str.strip, str.lower and the substring test `in` are computed.          *)
(***************************************************************************)
EXTENDS Integers, Sequences, FiniteSets, TLC

\* ------------------------------------------------------------------ bounds
\* The number of lines the interactive prompt can deliver before end-of-input.
MaxReads == 2

\* The number of tool calls the agent may make while answering one query.
MaxToolCalls == 2

\* ------------------------------------------------------------------ text
UpperCase == <<"A","B","C","D","E","F","G","H","I","J","K","L","M",
               "N","O","P","Q","R","S","T","U","V","W","X","Y","Z">>
LowerCase == <<"a","b","c","d","e","f","g","h","i","j","k","l","m",
               "n","o","p","q","r","s","t","u","v","w","x","y","z">>

\* str.isspace for one character
IsSpace(c) == c \in {" ", "\t", "\n", "\r"}

LowerChar(c) ==
    IF \E i \in 1..Len(UpperCase) : UpperCase[i] = c
    THEN LowerCase[CHOOSE i \in 1..Len(UpperCase) : UpperCase[i] = c]
    ELSE c

\* str.lower()
lower(s) == [i \in 1..Len(s) |-> LowerChar(s[i])]

RECURSIVE lstrip(_)
lstrip(s) == IF s # <<>> /\ IsSpace(Head(s)) THEN lstrip(Tail(s)) ELSE s

RECURSIVE rstrip(_)
rstrip(s) ==
    IF s # <<>> /\ IsSpace(s[Len(s)]) THEN rstrip(SubSeq(s, 1, Len(s) - 1)) ELSE s

\* str.strip()
strip(s) == rstrip(lstrip(s))

\* the substring test `sub in s`
Contains(sub, s) ==
    \E i \in 0..(Len(s) - Len(sub)) : SubSeq(s, i + 1, i + Len(sub)) = sub

T429 == <<"4","2","9">>
TRateLimit == <<"r","a","t","e"," ","l","i","m","i","t">>
TQuota == <<"q","u","o","t","a">>
TQuit == <<"q","u","i","t">>

\* ------------------------------------------------------------------ inputs
NoLine == <<"<none>">>
EOF == <<"<EOF>">>

\* Lines the interactive prompt may deliver (input() without the newline).
InputLines ==
    { <<"q","u","i","t">>,
      <<" ","Q","u","I","t"," ">>,
      <<"Q","U","I","T","\t">>,
      <<"q","u","i","t","s">>,
      <<"q"," ","u","i","t">>,
      <<>>,
      <<" "," ">>,
      <<"l","s">>,
      <<" ","h","i"," ">> }

\* Values of the --once flag (None when the flag is absent).
None == <<"<None>">>
OnceTexts ==
    { <<"l","s">>, <<" ","h","i"," ">>, <<>>, <<" ","\t">>, <<"q","u","i","t">> }

\* str(e) of the exceptions agent.ainvoke may raise.
NoError == <<"<no error>">>
ErrorTexts ==
    { <<"E","r","r","o","r"," ","4","2","9">>,
      <<"R","a","t","e"," ","L","i","m","i","t"," ","h","i","t">>,
      <<"r","a","t","e"," ","l","i","m","i","t">>,
      <<"Q","U","O","T","A">>,
      <<"n","o"," ","q","u","o","t","a"," ","l","e","f","t">>,
      <<"r","a","t","e","-","l","i","m","i","t">>,
      <<"4","2"," ","9">>,
      <<"b","o","o","m">>,
      <<>> }

\* ------------------------------------------------------------------ values
\* A Python value met while serializing: a str (natively serializable) or an
\* object of class cls; attr is <<>> when the object has no `content`
\* attribute and <<v>> when o.content is v.
PyStr(t) == [kind |-> "str", cls |-> "str", text |-> t, attr |-> <<>>]
PyObj(c, t, a) == [kind |-> "obj", cls |-> c, text |-> t, attr |-> a]

Bytes == PyObj("bytes", "b'x'", <<>>)
Human == PyObj("HumanMessage", "content='ls'", <<PyStr("ls")>>)
AI == PyObj("AIMessage", "content=''", <<PyStr("")>>)
Tool == PyObj("ToolMessage", "content='a.txt'", <<PyStr("a.txt")>>)
Wrapped == PyObj("AIMessage", "content=Chunk", <<PyObj("Chunk", "Chunk", <<PyStr("hi")>>)>>)
Broken == PyObj("ToolMessage", "content=b'x'", <<Bytes>>)

\* The responses agent.ainvoke may return: the list of message entries.
NoResponse == << >>
Responses ==
    { <<Human, AI>>,
      <<Human, Tool, AI>>,
      <<PyStr("ok"), Human>>,
      <<Human, Wrapped>>,
      <<Human, Bytes>>,
      <<Human, Broken>>,
      <<Bytes>> }

\* A JSON text, as the tree json.dumps writes.
JString(t) == [j |-> "string", s |-> t, fields |-> <<>>]
JObject(f) == [j |-> "object", s |-> "", fields |-> f]


\* ------------------------------------------------------------------ encoder
\* default with the whole object rendered in place of its content
defaultWholeRepr(o) ==
    IF o.attr # <<>>
    THEN << << [key |-> "type", value |-> PyStr(o.cls)],
               [key |-> "content", value |-> PyStr(o.text)] >> >>
    ELSE <<>>

\* CustomEncoder.default: <<dict>> for an object with a content attribute,
\* the dict as its items in insertion order; <<>> stands for the TypeError
\* json.JSONEncoder.default raises.
default(o) ==
    IF o.attr # <<>>
    THEN << << [key |-> "type", value |-> PyStr(o.cls)],
               [key |-> "content", value |-> o.attr[1]] >> >>
    ELSE <<>>

RECURSIVE Encode(_)
RECURSIVE EncodeDict(_)

\* json.dumps of one value with cls=CustomEncoder: a str is written as it
\* is, any other object goes through default and the result is encoded in
\* turn. <<json>> on success, <<>> when an exception is raised.
Encode(o) ==
    IF o.kind = "str"
    THEN <<JString(o.text)>>
    ELSE LET d == default(o)
         IN  IF d = <<>> THEN <<>> ELSE EncodeDict(d[1])

EncodeDict(items) ==
    IF \E i \in 1..Len(items) : Encode(items[i].value) = <<>>
    THEN <<>>
    ELSE <<JObject([i \in 1..Len(items) |->
                     [name |-> items[i].key, val |-> Encode(items[i].value)[1]]])>>

\* json.dumps(response, indent=2, cls=CustomEncoder) of the list of entries
dumps(resp) ==
    IF \E i \in 1..Len(resp) : Encode(resp[i]) = <<>>
    THEN <<>>
    ELSE << [i \in 1..Len(resp) |-> Encode(resp[i])[1]] >>

\* repr of one value, as str() of the enclosing list writes it
Repr(o) == IF o.kind = "str" THEN <<"'", o.text, "'">> ELSE <<o.text>>

\* str(response)
Str(resp) == [i \in 1..Len(resp) |-> Repr(resp[i])]

NoOutput == [form |-> "none", json |-> <<>>, text |-> <<>>]

\* Formatted with the except branch rendering the exception, not the response
FormattedErrorText(resp) ==
    LET d == dumps(resp)
    IN  IF d # <<>>
        THEN [form |-> "json", json |-> d[1], text |-> <<>>]
        ELSE [form |-> "str", json |-> <<>>, text |-> << <<"TypeError">> >>]

\* formatted, as the try/except around json.dumps leaves it
Formatted(resp) ==
    LET d == dumps(resp)
    IN  IF d # <<>>
        THEN [form |-> "json", json |-> d[1], text |-> <<>>]
        ELSE [form |-> "str", json |-> <<>>, text |-> Str(resp)]

\* ------------------------------------------------------------------ state
VARIABLES
    once,          \* args.once: None or the text given with --once
    pc,            \* position of run_agent
    childAlive,    \* the server process started by stdio_client is running
    channelOpen,   \* the stdio streams (read, write) are open
    sessionState,  \* Disconnected, Initializing, Ready, Closed
    releases,      \* times the two context managers have been exited
    tools,         \* load_mcp_tools has returned
    agent,         \* create_react_agent has returned
    line,          \* what the last input() delivered (a line, or EOF)
    query,         \* the local variable query
    response,      \* the local variable response
    error,         \* str(e) of the last exception raised by agent.ainvoke
    formatted,     \* the local variable formatted
    raised,        \* the exception that left run_agent (NoError: none)
    reads,         \* calls of input()
    invocations,   \* calls of agent.ainvoke
    emitted,       \* responses printed
    advisories,    \* rate-limit advisories printed
    pending,       \* requests written to the session and not yet answered
    lastRequest,   \* method of the request written last
    lastReply,     \* method of the request whose response arrived last
    toolCalls,     \* tool calls made so far for the current query
    dirs,          \* the directories of the server's filesystem
    files,         \* its regular files: path -> content
    links,         \* its symbolic links: path -> target
    call,          \* the last tool call: the tool and its filename argument
    result,        \* the text that call returned
    touched        \* what that call did to the filesystem

clientVars ==
    <<once, pc, childAlive, channelOpen, sessionState, releases, tools, agent,
      line, query, response, error, formatted, raised, reads, invocations,
      emitted, advisories, pending, lastRequest, lastReply, toolCalls>>

wireVars == <<pending, lastRequest, lastReply, toolCalls>>

fsVars == <<dirs, files, links, call, result, touched>>

vars == <<clientVars, fsVars>>

SpawnError == <<"<SpawnError>">>
InitializeError == <<"<initialize failed>">>
DiscoveryError == <<"<load_mcp_tools failed>">>

\* the status the interpreter exits with once asyncio.run(run_agent()) ends
ExitStatus == IF raised = NoError THEN 0 ELSE 1

\* IsTransient without the lower() calls
IsTransientCaseSensitive(msg) ==
    \/ Contains(T429, msg)
    \/ Contains(TRateLimit, msg)
    \/ Contains(TQuota, msg)

\* IsTransient of an except branch that continues whatever the exception
IsTransientAny(msg) == TRUE

\* `"429" in msg or "rate limit" in msg.lower() or "quota" in msg.lower()`
IsTransient(msg) ==
    \/ Contains(T429, msg)
    \/ Contains(TRateLimit, lower(msg))
    \/ Contains(TQuota, lower(msg))

\* IsQuit without the lower() call
IsQuitExact(q) == q = TQuit

\* `query.lower() == "quit"`
IsQuit(q) == lower(q) = TQuit

\* ------------------------------------------------------------------ files
\* A path is the sequence of its components below "/"; <<>> is "/".
\* A filename argument is a sequence of components too, led by "/" when the
\* text is absolute.

\* Longest file content the model lets write_file build by appending.
MaxFileLen == 2

\* DEFAULT_WORKSPACE, expanded
DEFAULT_WORKSPACE == <<"home", "ws">>

Secret == <<"home", "secret">>

Filenames ==
    { <<"a">>,
      <<"d", "a">>,
      <<"d">>,
      <<>>,
      <<"d", "..", "a">>,
      <<"/", "home", "ws", "a">>,
      <<"..", "secret">>,
      <<"d", "..", "..", "secret">>,
      <<"/", "home", "secret">>,
      <<"link", "secret">> }

Contents == { <<>>, <<"x">> }

\* read_file's default max_chars
DefaultMaxChars == 20000

NoLinks == [p \in {} |-> <<>>]

Parents(p) == { SubSeq(p, 1, k) : k \in 0..(Len(p) - 1) }

RECURSIVE Walk(_, _)
Walk(cur, rest) ==
    IF rest = <<>> THEN cur
    ELSE LET c == Head(rest)
             nxt == Append(cur, c)
         IN  IF c = "." THEN Walk(cur, Tail(rest))
             ELSE IF c = ".."
                  THEN Walk(IF cur = <<>> THEN cur ELSE SubSeq(cur, 1, Len(cur) - 1),
                            Tail(rest))
             ELSE IF nxt \in DOMAIN links THEN Walk(links[nxt], Tail(rest))
             ELSE Walk(nxt, Tail(rest))

\* Path.resolve(): "." and ".." are collapsed and symbolic links followed
Resolve(p) == Walk(<<>>, p)

\* root / relative_path: an absolute right operand replaces the left one
Join(root, rel) ==
    IF rel # <<>> /\ Head(rel) = "/" THEN Tail(rel) ELSE root \o rel

\* _workspace_root()
WorkspaceRoot == Resolve(DEFAULT_WORKSPACE)

\* _safe_path with the containment test made on the joined path before
\* resolve()
SafePathLexical(rel) ==
    LET root == WorkspaceRoot
        joined == Join(root, rel)
        target == Resolve(joined)
    IN  IF root \notin Parents(joined) /\ joined # root
        THEN [ok |-> FALSE, path |-> target]
        ELSE [ok |-> TRUE, path |-> target]

\* _safe_path: ok with the resolved target, or not ok for the ValueError.
\* expanduser() leaves the joined path alone: it is absolute, and only a
\* relative path that starts with "~" is expanded.
SafePath(rel) ==
    LET root == WorkspaceRoot
        target == Resolve(Join(root, rel))
    IN  IF root \notin Parents(target) /\ target # root
        THEN [ok |-> FALSE, path |-> target]
        ELSE [ok |-> TRUE, path |-> target]

Exists(p) == p \in dirs \/ p \in DOMAIN files

ErrorText(t) == [kind |-> "error", text |-> <<t>>]

\* What a tool leaves behind: the filesystem, the text returned, the accesses.
Outcome(d, f, r, t) == [dirs |-> d, files |-> f, result |-> r, touched |-> t]

Rejected == Outcome(dirs, files, ErrorText("Path must be under workspace"), {})

\* path.parent.mkdir(parents=True, exist_ok=True): the missing ancestors, or
\* <<"error">> when a component of the way is a regular file
MkdirParents(parent) ==
    LET way == Parents(parent) \cup {parent}
    IN  IF \E q \in way : q \in DOMAIN files
        THEN [ok |-> FALSE, made |-> {}]
        ELSE [ok |-> TRUE, made |-> way \ dirs]

Made(ds) == { [op |-> "mkdir", path |-> q] : q \in ds }

Store(path, text) ==
    [q \in DOMAIN files \cup {path} |-> IF q = path THEN text ELSE files[q]]

ParentOf(path) == IF path = <<>> THEN path ELSE SubSeq(path, 1, Len(path) - 1)

\* create_file(filename, content, overwrite)
CreateFileRun(filename, content, overwrite) ==
    LET sp == SafePath(filename)
        path == sp.path
        mk == MkdirParents(ParentOf(path))
    IN  IF ~sp.ok THEN Rejected
        ELSE IF ~mk.ok
             THEN Outcome(dirs, files, ErrorText("NotADirectoryError"), {})
        ELSE IF Exists(path) /\ ~overwrite
             THEN Outcome(dirs \cup mk.made, files,
                          [kind |-> "exists", text |-> filename], Made(mk.made))
        ELSE IF path \in dirs \cup mk.made
             THEN Outcome(dirs \cup mk.made, files,
                          ErrorText("IsADirectoryError"), Made(mk.made))
        ELSE Outcome(dirs \cup mk.made, Store(path, content),
                     [kind |-> "created", text |-> filename],
                     Made(mk.made) \cup {[op |-> "write", path |-> path]})

\* write_file(filename, content, append)
WriteFileRun(filename, content, append) ==
    LET sp == SafePath(filename)
        path == sp.path
        mk == MkdirParents(ParentOf(path))
        text == IF append /\ path \in DOMAIN files
                THEN files[path] \o content ELSE content
    IN  IF ~sp.ok THEN Rejected
        ELSE IF ~mk.ok
             THEN Outcome(dirs, files, ErrorText("NotADirectoryError"), {})
        ELSE IF path \in dirs \cup mk.made
             THEN Outcome(dirs \cup mk.made, files,
                          ErrorText("IsADirectoryError"), Made(mk.made))
        ELSE Outcome(dirs \cup mk.made, Store(path, text),
                     [kind |-> "wrote", text |-> filename],
                     Made(mk.made) \cup {[op |-> "write", path |-> path]})

\* read_file(filename, max_chars)
ReadFileRun(filename, max_chars) ==
    LET sp == SafePath(filename)
        path == sp.path
    IN  IF ~sp.ok THEN Rejected
        ELSE IF ~Exists(path)
             THEN Outcome(dirs, files, [kind |-> "notfound", text |-> filename], {})
        ELSE IF path \in dirs
             THEN Outcome(dirs, files, ErrorText("IsADirectoryError"), {})
        ELSE Outcome(dirs, files,
                     [kind |-> "text",
                      text |-> IF Len(files[path]) > max_chars
                               THEN SubSeq(files[path], 1, max_chars)
                                        \o <<"\n... (truncated) ...">>
                               ELSE files[path]],
                     {[op |-> "read", path |-> path]})

NoCall == [tool |-> "none", filename |-> <<>>]
NoResult == [kind |-> "none", text |-> <<>>]

\* The filesystem the server starts on: the workspace with or without a
\* symbolic link that leads out of it, or no workspace directory yet.
FsStart ==
    /\ files = (Secret :> <<"s">>)
    /\ \/ /\ dirs = {<<>>, <<"home">>, DEFAULT_WORKSPACE}
          /\ links \in {NoLinks, (<<"home", "ws", "link">> :> <<"home">>)}
       \/ /\ dirs = {<<>>, <<"home">>}
          /\ links = NoLinks
    /\ call = NoCall
    /\ result = NoResult
    /\ touched = {}

\* the server is not part of the run
FsIdle ==
    /\ files = (Secret :> <<"s">>)
    /\ dirs = {<<>>, <<"home">>, DEFAULT_WORKSPACE}
    /\ links = NoLinks
    /\ call = NoCall
    /\ result = NoResult
    /\ touched = {}

Apply(o) ==
    /\ dirs' = o.dirs
    /\ files' = o.files
    /\ result' = o.result
    /\ touched' = o.touched

create_file ==
    /\ \E f \in Filenames, c \in Contents, overwrite \in BOOLEAN :
         /\ call' = [tool |-> "create_file", filename |-> f]
         /\ Apply(CreateFileRun(f, c, overwrite))
    /\ UNCHANGED <<links, clientVars>>

write_file ==
    /\ \E f \in Filenames, c \in Contents, append \in BOOLEAN :
         /\ append /\ SafePath(f).path \in DOMAIN files
                => Len(files[SafePath(f).path] \o c) <= MaxFileLen
         /\ call' = [tool |-> "write_file", filename |-> f]
         /\ Apply(WriteFileRun(f, c, append))
    /\ UNCHANGED <<links, clientVars>>

read_file ==
    /\ \E f \in Filenames, m \in {1, DefaultMaxChars} :
         /\ call' = [tool |-> "read_file", filename |-> f]
         /\ Apply(ReadFileRun(f, m))
    /\ UNCHANGED <<links, clientVars>>

FsNext ==
    \/ create_file
    \/ write_file
    \/ read_file


ClientInit ==
    /\ once \in {None} \cup OnceTexts
    /\ pc = "start"
    /\ childAlive = FALSE
    /\ channelOpen = FALSE
    /\ sessionState = "Disconnected"
    /\ releases = 0
    /\ tools = FALSE
    /\ agent = FALSE
    /\ line = NoLine
    /\ query = NoLine
    /\ response = NoResponse
    /\ error = NoError
    /\ formatted = NoOutput
    /\ raised = NoError
    /\ reads = 0
    /\ invocations = 0
    /\ emitted = 0
    /\ advisories = 0
    /\ pending = <<>>
    /\ lastRequest = "none"
    /\ lastReply = "none"
    /\ toolCalls = 0

\* ExitScopes of a run_agent that closes the session after the loop instead
\* of in `async with`: an exception passes the closing code by
ExitScopesOnReturnOnly(exc) ==
    /\ pc' = "done"
    /\ raised' = exc
    /\ IF exc = NoError
       THEN /\ sessionState' = "Closed"
            /\ channelOpen' = FALSE
            /\ childAlive' = FALSE
            /\ releases' = releases + 1
       ELSE UNCHANGED <<sessionState, channelOpen, childAlive, releases>>

\* Leaving both `async with` blocks, by return, break or a propagating
\* exception exc: ClientSession.__aexit__ closes the session, then
\* stdio_client.__aexit__ closes the streams and terminates the child.
ExitScopes(exc) ==
    /\ pc' = "done"
    /\ raised' = exc
    /\ sessionState' = "Closed"
    /\ channelOpen' = FALSE
    /\ childAlive' = FALSE
    /\ releases' = releases + 1

\* async with stdio_client(server_params) as (read, write)
Spawn ==
    /\ pc = "start"
    /\ \/ /\ pc' = "spawned"
          /\ childAlive' = TRUE
          /\ channelOpen' = TRUE
          /\ UNCHANGED raised
       \/ /\ pc' = "done"
          /\ raised' = SpawnError
          /\ UNCHANGED <<childAlive, channelOpen>>
    /\ UNCHANGED <<once, sessionState, releases, tools, agent, line, query,
                   response, error, formatted, reads, invocations, emitted,
                   advisories>>
    /\ UNCHANGED wireVars
    /\ UNCHANGED fsVars

\* async with ClientSession(read, write) as session
OpenSession ==
    /\ pc = "spawned"
    /\ pc' = "session"
    /\ sessionState' = "Initializing"
    /\ UNCHANGED <<once, childAlive, channelOpen, releases, tools, agent, line,
                   query, response, error, formatted, raised, reads,
                   invocations, emitted, advisories>>
    /\ UNCHANGED wireVars
    /\ UNCHANGED fsVars

\* One request written to the session: the caller is suspended until its
\* response arrives.
Send(method) ==
    /\ pending' = Append(pending, method)
    /\ lastRequest' = method

\* The response to the i-th request in flight arrives.
Receive(i) ==
    /\ pending' = SubSeq(pending, 1, i - 1) \o SubSeq(pending, i + 1, Len(pending))
    /\ lastReply' = pending[i]

\* Initialize of a handshake started as a task and not awaited
InitializeNotAwaited ==
    /\ pc = "session"
    /\ pc' = "initialized"
    /\ Send("initialize")
    /\ UNCHANGED <<once, childAlive, channelOpen, sessionState, releases, tools,
                   agent, line, query, response, error, formatted, raised,
                   reads, invocations, emitted, advisories, lastReply,
                   toolCalls>>
    /\ UNCHANGED fsVars

\* await session.initialize(): the handshake request is written
Initialize ==
    /\ pc = "session"
    /\ pc' = "initializing"
    /\ Send("initialize")
    /\ UNCHANGED <<once, childAlive, channelOpen, sessionState, releases, tools,
                   agent, line, query, response, error, formatted, raised,
                   reads, invocations, emitted, advisories, lastReply,
                   toolCalls>>
    /\ UNCHANGED fsVars

\* InitializeReply of a handshake whose failure is swallowed
InitializeReplyIgnoreFailure ==
    /\ pc = "initializing"
    /\ pc' = "initialized"
    /\ \/ /\ \E i \in 1..Len(pending) : Receive(i)
          /\ sessionState' = "Ready"
       \/ /\ pending' = <<>>
          /\ UNCHANGED <<lastReply, sessionState>>
    /\ UNCHANGED <<once, childAlive, channelOpen, releases, raised, tools, agent,
                   line, query, response, error, formatted, reads, invocations,
                   emitted, advisories, lastRequest, toolCalls>>
    /\ UNCHANGED fsVars

\* session.initialize() completes: the response arrives and the session is
\* Ready, or the call raises and the exception leaves run_agent.
InitializeReply ==
    /\ pc = "initializing"
    /\ \/ /\ \E i \in 1..Len(pending) : Receive(i)
          /\ pc' = "initialized"
          /\ sessionState' = "Ready"
          /\ UNCHANGED <<childAlive, channelOpen, releases, raised>>
       \/ /\ ExitScopes(InitializeError)
          /\ pending' = <<>>
          /\ UNCHANGED lastReply
    /\ UNCHANGED <<once, tools, agent, line, query, response, error, formatted,
                   reads, invocations, emitted, advisories, lastRequest,
                   toolCalls>>
    /\ UNCHANGED fsVars

\* tools = await load_mcp_tools(session): the discovery request is written
LoadTools ==
    /\ pc = "initialized"
    /\ pc' = "discovering"
    /\ Send("tools/list")
    /\ UNCHANGED <<once, childAlive, channelOpen, sessionState, releases, tools,
                   agent, line, query, response, error, formatted, raised,
                   reads, invocations, emitted, advisories, lastReply,
                   toolCalls>>
    /\ UNCHANGED fsVars

\* load_mcp_tools returns the tools, or raises
LoadToolsReply ==
    /\ pc = "discovering"
    /\ \/ /\ \E i \in 1..Len(pending) : Receive(i)
          /\ pc' = "discovered"
          /\ tools' = TRUE
          /\ UNCHANGED <<childAlive, channelOpen, sessionState, releases, raised>>
       \/ /\ ExitScopes(DiscoveryError)
          /\ pending' = <<>>
          /\ UNCHANGED <<tools, lastReply>>
    /\ UNCHANGED <<once, agent, line, query, response, error, formatted, reads,
                   invocations, emitted, advisories, lastRequest, toolCalls>>
    /\ UNCHANGED fsVars

\* agent = create_react_agent(llm, tools), then the branch on args.once:
\* one-shot strips the text and invokes the agent when it is not empty, and
\* returns otherwise; interactive prints the banner and enters the loop.
CreateAgent ==
    /\ pc = "discovered"
    /\ agent' = TRUE
    /\ IF once # None
       THEN /\ query' = strip(once)
            /\ IF query' # <<>>
               THEN /\ pc' = "dispatching"
                    /\ invocations' = invocations + 1
                    /\ UNCHANGED <<childAlive, channelOpen, sessionState,
                                   releases, raised>>
               ELSE /\ ExitScopes(NoError)
                    /\ UNCHANGED invocations
       ELSE /\ pc' = "awaiting"
            /\ UNCHANGED <<query, invocations, childAlive, channelOpen,
                           sessionState, releases, raised>>
    /\ toolCalls' = 0
    /\ UNCHANGED <<once, tools, line, response, error, formatted, reads,
                   emitted, advisories, pending, lastRequest, lastReply>>
    /\ UNCHANGED fsVars

\* One turn of `while True` up to the await: input() delivers a line or
\* raises EOFError; EOF and the quit word break out of the loop, any other
\* text is handed to agent.ainvoke.
ReadInput ==
    /\ pc = "awaiting"
    /\ reads' = reads + 1
    /\ \/ /\ line' = EOF
          /\ ExitScopes(NoError)
          /\ UNCHANGED <<query, invocations>>
       \/ /\ reads < MaxReads
          /\ \E l \in InputLines :
               /\ line' = l
               /\ query' = strip(l)
               /\ IF IsQuit(query')
                  THEN /\ ExitScopes(NoError)
                       /\ UNCHANGED invocations
                  ELSE /\ pc' = "dispatching"
                       /\ invocations' = invocations + 1
                       /\ UNCHANGED <<childAlive, channelOpen, sessionState,
                                      releases, raised>>
    /\ toolCalls' = 0
    /\ UNCHANGED <<once, tools, agent, response, error, formatted, emitted,
                   advisories, pending, lastRequest, lastReply>>
    /\ UNCHANGED fsVars

\* While agent.ainvoke runs, the agent calls a tool: one request is written
\* and the agent waits for its result before it goes on.
ToolCall ==
    /\ pc = "dispatching"
    /\ pending = <<>>
    /\ toolCalls < MaxToolCalls
    /\ toolCalls' = toolCalls + 1
    /\ Send("tools/call")
    /\ UNCHANGED <<once, pc, childAlive, channelOpen, sessionState, releases,
                   tools, agent, line, query, response, error, formatted, raised,
                   reads, invocations, emitted, advisories, lastReply>>
    /\ UNCHANGED fsVars

\* The result of the tool call (a payload, or an error handed to the agent
\* as data) arrives.
ToolResult ==
    /\ pc = "dispatching"
    /\ \E i \in 1..Len(pending) : Receive(i)
    /\ UNCHANGED <<once, pc, childAlive, channelOpen, sessionState, releases,
                   tools, agent, line, query, response, error, formatted, raised,
                   reads, invocations, emitted, advisories, lastRequest,
                   toolCalls>>
    /\ UNCHANGED fsVars

\* agent.ainvoke returns the response.
AgentReturns ==
    /\ pc = "dispatching"
    /\ pending = <<>>
    /\ \E r \in Responses : response' = r
    /\ pc' = "formatting"
    /\ UNCHANGED <<once, childAlive, channelOpen, sessionState, releases, tools,
                   agent, line, query, error, formatted, raised, reads,
                   invocations, emitted, advisories>>
    /\ UNCHANGED wireVars
    /\ UNCHANGED fsVars

\* Format of a one-shot branch without its `return`: it falls into the loop
FormatFallThrough ==
    /\ pc = "formatting"
    /\ formatted' = Formatted(response)
    /\ emitted' = emitted + 1
    /\ pc' = "awaiting"
    /\ UNCHANGED <<childAlive, channelOpen, sessionState, releases, raised>>
    /\ UNCHANGED <<once, tools, agent, line, query, response, error, reads,
                   invocations, advisories>>
    /\ UNCHANGED wireVars
    /\ UNCHANGED fsVars

\* The response is formatted (json.dumps, or str when that raises) and
\* printed. One-shot then returns, interactive goes back to the prompt.
Format ==
    /\ pc = "formatting"
    /\ formatted' = Formatted(response)
    /\ emitted' = emitted + 1
    /\ IF once # None
       THEN ExitScopes(NoError)
       ELSE /\ pc' = "awaiting"
            /\ UNCHANGED <<childAlive, channelOpen, sessionState, releases,
                           raised>>
    /\ UNCHANGED <<once, tools, agent, line, query, response, error, reads,
                   invocations, advisories>>
    /\ UNCHANGED wireVars
    /\ UNCHANGED fsVars

\* agent.ainvoke raises e. The interactive loop prints the advisory and
\* continues when str(e) carries a rate-limit marker and re-raises
\* otherwise; the one-shot call is not inside a try.
AgentFails ==
    /\ pc = "dispatching"
    /\ pending = <<>>
    /\ \E e \in ErrorTexts :
         /\ error' = e
         /\ IF once = None /\ IsTransient(e)
            THEN /\ advisories' = advisories + 1
                 /\ pc' = "awaiting"
                 /\ UNCHANGED <<childAlive, channelOpen, sessionState, releases,
                                raised>>
            ELSE /\ ExitScopes(e)
                 /\ UNCHANGED advisories
    /\ UNCHANGED <<once, tools, agent, line, query, response, formatted, reads,
                   invocations, emitted>>
    /\ UNCHANGED wireVars
    /\ UNCHANGED fsVars

Init == ClientInit /\ FsIdle

Next ==
    \/ Spawn
    \/ OpenSession
    \/ Initialize
    \/ InitializeReply
    \/ LoadTools
    \/ LoadToolsReply
    \/ CreateAgent
    \/ ReadInput
    \/ ToolCall
    \/ ToolResult
    \/ AgentReturns
    \/ Format
    \/ AgentFails

Spec == Init /\ [][Next]_vars

\* The terminal server alone, answering tool calls.
FsInit == ClientInit /\ once = None /\ FsStart

FsSpec == FsInit /\ [][FsNext]_vars

\* ------------------------------------------------------------------ claims
\* The transient markers as the claims word them: "429", and "rate limit"
\* or "quota" in any letter case.
MarkerText(msg) ==
    \E m \in {T429, TRateLimit, TQuota} :
        \E i \in 1..Len(msg) :
            /\ i + Len(m) - 1 <= Len(msg)
            /\ \A k \in 1..Len(m) :
                 \/ msg[i + k - 1] = m[k]
                 \/ \E n \in 1..Len(UpperCase) :
                      UpperCase[n] = msg[i + k - 1] /\ LowerCase[n] = m[k]

\* The step is agent.ainvoke raising: the dispatch ends without a response.
AinvokeRaises == pc = "dispatching" /\ pc' \notin {"dispatching", "formatting"}

\* C1: once the child process is started, every way out of run_agent
\* (one-shot return, quit, end-of-input, a fatal error of a query, a failed
\* initialize or tool discovery) releases the session exactly once: in the
\* terminal state the channel is closed and the child is not alive, and no
\* release happens before the exit.
C1_ReleasedOnEveryExit ==
    /\ releases <= 1
    /\ pc \notin {"start", "done"} => childAlive /\ channelOpen /\ releases = 0
    /\ pc = "done" => ~childAlive /\ ~channelOpen
    /\ pc = "done" /\ raised # SpawnError => releases = 1 /\ sessionState = "Closed"

C1_Witness ==
    /\ pc = "done"
    /\ once = None
    /\ raised = <<"b","o","o","m">>
    /\ releases = 1
    /\ ~childAlive

\* C2: in interactive mode, when agent.ainvoke fails with a text that holds
\* "429", "rate limit" or "quota", the loop prints one advisory and is back
\* at the prompt, with the session still open and nothing raised.
C2_RateLimitAdvisory ==
    [][(once = None /\ AinvokeRaises /\ MarkerText(error'))
         => /\ pc' = "awaiting"
            /\ advisories' = advisories + 1
            /\ raised' = NoError
            /\ childAlive' /\ channelOpen' /\ sessionState' = "Ready"
            /\ releases' = 0]_vars

C2_Witness ==
    /\ once = None
    /\ pc = "awaiting"
    /\ error = <<"Q","U","O","T","A">>
    /\ advisories = 1
    /\ childAlive

\* C3: in one-shot mode a rate-limit/quota error of the single query is
\* caught: an advisory is printed and no exception leaves run_agent.
C3_OneShotRateLimitCaught ==
    (once # None /\ error # NoError /\ MarkerText(error))
        => advisories = 1 /\ raised = NoError

\* C4 as claimed: a one-shot run that ends without an error has made exactly
\* one agent invocation and emitted one output, whatever the query text.
C4_OneShotAnyTextOnePass ==
    (once # None /\ pc = "done" /\ raised = NoError)
        => invocations = 1 /\ emitted = 1

\* C4, amended: a one-shot run never reads the prompt and invokes the agent
\* at most once; when the agent call succeeds the run emits one output and
\* ends with status 0; a run that ends without an error has made exactly one
\* invocation and one output when the query text is not empty after
\* trimming, and none when it is.
C4_OneShotNonEmptyOnePass ==
    once # None =>
        /\ reads = 0 /\ line = NoLine /\ pc # "awaiting"
        /\ invocations <= 1 /\ emitted <= invocations
        /\ emitted = 1 => pc = "done" /\ ExitStatus = 0
        /\ (pc = "done" /\ raised = NoError) =>
              IF \E i \in 1..Len(once) : ~IsSpace(once[i])
              THEN invocations = 1 /\ emitted = 1
              ELSE invocations = 0 /\ emitted = 0

C4_Witness ==
    /\ once = <<" ","h","i"," ">>
    /\ pc = "done"
    /\ raised = NoError
    /\ invocations = 1
    /\ emitted = 1

\* C5: in interactive mode an empty or whitespace-only line is never passed
\* to the agent.
C5_EmptyNeverDispatched ==
    (once = None /\ pc = "dispatching") => query # <<>>

\* The line is the quit word in any letter case, surrounding whitespace aside.
QuitLine(l) ==
    \E a \in 0..Len(l), b \in 0..Len(l) :
        /\ b - a = Len(TQuit)
        /\ \A i \in 1..a : IsSpace(l[i])
        /\ \A i \in (b + 1)..Len(l) : IsSpace(l[i])
        /\ \A k \in 1..Len(TQuit) :
             \/ l[a + k] = TQuit[k]
             \/ \E n \in 1..Len(UpperCase) :
                  UpperCase[n] = l[a + k] /\ LowerCase[n] = TQuit[k]

\* C6: in interactive mode, reading the quit word (any letter case, trimmed)
\* or end-of-input ends the run at once: no agent invocation for that input,
\* the session released, exit status 0, and nothing is read or invoked
\* after the run has ended.
C6_QuitOrEofTerminates ==
    [][/\ (pc = "awaiting" /\ (line' = EOF \/ QuitLine(line')))
            => /\ pc' = "done"
               /\ invocations' = invocations
               /\ raised' = NoError
               /\ ExitStatus' = 0
               /\ ~childAlive'
       /\ pc = "done" => reads' = reads /\ invocations' = invocations]_vars

C6_Witness ==
    /\ pc = "done"
    /\ line = <<" ","Q","u","I","t"," ">>
    /\ raised = NoError
    /\ reads = 1
    /\ invocations = 0

\* C7: when agent.ainvoke fails with a text that holds none of the markers,
\* the error leaves run_agent: no further query is read, the run ends with a
\* non-zero status, and the session is closed on the way out.
C7_OtherErrorsFatal ==
    [][/\ (AinvokeRaises /\ ~MarkerText(error'))
            => /\ pc' = "done"
               /\ raised' = error'
               /\ ExitStatus' = 1
               /\ advisories' = advisories
               /\ ~childAlive' /\ ~channelOpen' /\ sessionState' = "Closed"
               /\ releases' = releases + 1
       /\ pc = "done" => reads' = reads /\ invocations' = invocations]_vars

C7_Witness ==
    /\ once = None
    /\ pc = "done"
    /\ error = <<"r","a","t","e","-","l","i","m","i","t">>
    /\ raised = error
    /\ reads = 2
    /\ ~childAlive

\* A value json.dumps can write with CustomEncoder: a str, or an object whose
\* content attribute is such a value.
RECURSIVE Writable(_)
Writable(o) == o.kind = "str" \/ (o.attr # <<>> /\ Writable(o.attr[1]))

\* C8: formatting a response always prints an output and raises nothing; a
\* response json.dumps cannot write is printed as str(response), whole; the
\* interactive loop is then back at the prompt with the session open, the
\* one-shot run ends with status 0.
C8_SerializationNeverAborts ==
    [][pc = "formatting"
         => /\ emitted' = emitted + 1
            /\ raised' = NoError
            /\ IF \A i \in 1..Len(response) : Writable(response[i])
               THEN formatted'.form = "json"
               ELSE /\ formatted'.form = "str"
                    /\ Len(formatted'.text) = Len(response)
                    /\ \A i \in 1..Len(response) :
                         formatted'.text[i] =
                            IF response[i].kind = "str"
                            THEN <<"'", response[i].text, "'">>
                            ELSE <<response[i].text>>
            /\ IF once = None
               THEN pc' = "awaiting" /\ childAlive' /\ sessionState' = "Ready"
               ELSE pc' = "done" /\ ExitStatus' = 0]_vars

C8_Witness ==
    /\ once = None
    /\ pc = "awaiting"
    /\ response = <<Human, Broken>>
    /\ formatted.form = "str"
    /\ emitted = 1

\* The value of the field called n of a JSON object
FieldOf(obj, n) ==
    obj.fields[CHOOSE k \in 1..Len(obj.fields) : obj.fields[k].name = n].val

\* C9: in the JSON output every entry that has a content attribute is an
\* object of exactly two fields, the entry's class name (under the key
\* "type", the record's kind field) and its content (a
\* str as that string, an object as its own two-field record), and
\* formatting leaves the response as it was.
C9_CanonicalRecord ==
    [][pc = "formatting" =>
         /\ response' = response
         /\ formatted'.form = "json" =>
              \A i \in 1..Len(response) :
                  response[i].attr # <<>> =>
                      LET rec == formatted'.json[i]
                          c == response[i].attr[1]
                      IN  /\ rec.j = "object"
                          /\ Len(rec.fields) = 2
                          /\ {rec.fields[k].name : k \in 1..2} = {"type", "content"}
                          /\ FieldOf(rec, "type") = JString(response[i].cls)
                          /\ IF c.kind = "str"
                             THEN FieldOf(rec, "content") = JString(c.text)
                             ELSE /\ FieldOf(rec, "content").j = "object"
                                  /\ FieldOf(FieldOf(rec, "content"), "type")
                                       = JString(c.cls)]_vars

C9_Witness ==
    /\ pc # "formatting"
    /\ formatted.form = "json"
    /\ response = <<Human, Wrapped>>
    /\ formatted.json[2].j = "object"

\* The filename leads out of the workspace: its resolved location is neither
\* the root nor below it.
Escapes(f) ==
    LET root == Resolve(DEFAULT_WORKSPACE)
        t == Resolve(IF f # <<>> /\ Head(f) = "/" THEN Tail(f) ELSE root \o f)
    IN  \/ Len(t) < Len(root)
        \/ \E k \in 1..Len(root) : t[k] # root[k]

\* C10: a file tool called with a filename that leads out of the workspace
\* returns an error text and does nothing to the filesystem (no read, no
\* write, no directory made); every file a tool reads or writes is the
\* workspace root or below it.
C10_EscapingRejected ==
    /\ [][(call'.tool # "none" /\ Escapes(call'.filename))
            => /\ result'.kind = "error"
               /\ touched' = {}
               /\ dirs' = dirs
               /\ files' = files]_vars
    /\ [](\A t \in touched :
            t.op \in {"read", "write"} =>
                /\ Len(t.path) >= Len(DEFAULT_WORKSPACE)
                /\ SubSeq(t.path, 1, Len(DEFAULT_WORKSPACE)) = Resolve(DEFAULT_WORKSPACE))

C10_Witness ==
    /\ call = [tool |-> "read_file", filename |-> <<"link", "secret">>]
    /\ links # NoLinks
    /\ result.kind = "error"
    /\ touched = {}

\* A request is written to the session in this step.
RequestSent == Len(pending') > Len(pending)

\* C11: the discovery request is written only on a Ready session whose
\* handshake was answered; the agent exists only after discovery returned
\* the tools, and no query is read or dispatched and no tool is called
\* before the agent exists; when initialize or discovery fails the run ends
\* with no agent, no prompt read and no query dispatched.
C11_ReadyThenDiscoveryThenAgent ==
    /\ [](/\ tools => sessionState \in {"Ready", "Closed"} /\ lastReply # "none"
          /\ agent => tools
          /\ (\/ pc \in {"awaiting", "dispatching", "formatting"}
              \/ reads > 0 \/ invocations > 0 \/ toolCalls > 0
              \/ lastRequest = "tools/call")
                => agent /\ tools
          /\ raised \in {InitializeError, DiscoveryError}
                => /\ pc = "done"
                   /\ ~agent
                   /\ reads = 0 /\ line = NoLine
                   /\ invocations = 0 /\ toolCalls = 0)
    /\ [][(RequestSent /\ lastRequest' = "tools/list")
            => /\ sessionState = "Ready"
               /\ lastReply = "initialize"
               /\ ~tools /\ ~agent]_vars

C11_Witness ==
    /\ pc = "dispatching"
    /\ sessionState = "Ready"
    /\ tools /\ agent
    /\ pending = <<"tools/call">>
    /\ toolCalls = 1

\* C12: at most one request is in flight on the session; a request is
\* written only when none is in flight, every response answers the request
\* written last, no request is in flight while the loop reads, formats or
\* has ended, and a query is read only when every earlier agent call has
\* returned (its output printed) or failed (its advisory printed).
C12_OneOutstandingRequest ==
    /\ [](/\ Len(pending) <= 1
          /\ pc \notin {"initializing", "discovering", "dispatching"}
                => pending = <<>>)
    /\ [][/\ RequestSent => pending = <<>> /\ pending' = <<lastRequest'>>
          /\ (Len(pending') < Len(pending) /\ pc' # "done")
                => /\ pending = <<lastRequest>>
                   /\ pending' = <<>>
                   /\ lastReply' = lastRequest
          /\ reads' > reads
                => /\ pc = "awaiting"
                   /\ pending = <<>>
                   /\ invocations = emitted + advisories]_vars

C12_Witness ==
    /\ pc = "dispatching"
    /\ reads = 2
    /\ toolCalls = 2
    /\ pending = <<>>
    /\ lastReply = "tools/call"
    /\ advisories = 1

====
